---- MODULE Spec2Model ----
(***************************************************************************)
(* Job lifecycle of the maintenance-ticketing backend                      *)
(* (Lastnext/backend/myLubd/src/myappLubd).                                *)
(*                                                                         *)
(* The JobSerializer class body in serializers.py contains two blocks of   *)
(* declarations.  Python binds a class attribute to its last definition,   *)
(* so the serializer that runs has                                         *)
(*   - topic_data and room_id from lines 256-257 (required),               *)
(*   - Meta from lines 260-268,                                            *)
(*   - create from lines 277-321,                                          *)
(*   - update from lines 207-242 (defined once),                           *)
(*   - property_id, is_preventivemaintenance from lines 92-93 (defined     *)
(*     once, still declared).                                              *)
(* The model follows the class as Python builds it.                        *)
(*                                                                         *)
(* The database is modelled with READ COMMITTED transactions: a row        *)
(* written inside transaction.atomic() is invisible to other requests      *)
(* until commit, and an insert that meets another transaction's            *)
(* uncommitted row with the same unique key waits for that transaction.    *)
(***************************************************************************)
EXTENDS Integers, Sequences, FiniteSets, TLC

\* ---------------------------------------------------------------- bounds
MaxJobs == 1
MaxTime == 2
NumRooms == 3
MaxFiles == 2
MaxAccounts == 2
MaxSessions == 2
MaxSaves == 3

\* ------------------------------------------------------------ value sets
None == "None"                       \* Python None / key absent from the payload
NoTitle == "notitle"                 \* topic_data given without a 'title' key
Users == {"u1", "u2"}
Procs == {"p1", "p2"}                \* request workers
OneWorker == {"p1"}                  \* creates served one at a time
Rooms == 1 .. NumRooms               \* rows of Room; 0 stands for an absent/falsy room_id
MissingRoom == NumRooms + 1          \* a room_id that matches no row
Properties == {"P1"}                 \* rows of Property, by property_id
MissingProperty == "PX"
\* Room.properties: the properties a room is linked to (room 1 has one)
RoomProperties(r) == IF r = 1 THEN {"P1"} ELSE {}
Titles == {"t1", "t2"}
JobIdSpace == 1 .. MaxJobs           \* values generate_job_id can draw

STATUS_CHOICES == {"pending", "in_progress", "waiting_sparepart", "completed", "cancelled"}

VARIABLES
    jobs,      \* table Job: sequence of rows, index = primary key
    topics,    \* table Topic: set of rows [title, owner]
    pc,        \* per worker: position inside the create request it is serving
    req,       \* per worker: the create request being served
    last,      \* the most recent response, with the payload it answers
    now,       \* timezone.now()
    jobimages, \* table JobImage: set of rows [id, job, uploaded_by, normalized]
    accounts,  \* table auth.User
    profiles,  \* table UserProfile
    sessions,  \* table Session
    img,       \* the image handed to the normalization pipeline
    stored,    \* what the pipeline stored for it
    media      \* the image-bearing record and its file on disk

vars == <<jobs, topics, pc, req, last, now, jobimages, accounts, profiles, sessions, img, stored, media>>
accountVars == <<accounts, profiles, sessions>>
imageVars == <<img, stored, media>>
jobVars == <<jobs, topics, pc, req, now, jobimages>>

NoPayload == [op |-> None, job_id |-> 0, room_id |-> 0, topic |-> None,
              property_id |-> None, pm |-> FALSE, status |-> None, partial |-> FALSE,
              files |-> << >>]
NoReq == [user |-> None, data |-> NoPayload, got |-> None]
NoResp == [data |-> NoPayload, code |-> 0, keys |-> {}, msg |-> None]

Response(i, code, keys, msg) == [data |-> i, code |-> code, keys |-> keys, msg |-> msg]

\* the messages the handlers put in their error responses
Required == "This field is required."
InvalidRoom == "Invalid room ID"
InvalidChoice == "not a valid choice"
InvalidStatus == "Invalid status value."
NotFound404 == "Not found."
ExceptionText == "str(e)"

\* ------------------------------------------------------------- Job model
JobSaveRegenerate(job, newid, t) ==
    LET j1 == [job EXCEPT !.job_id = newid]
    IN  IF j1.status = "completed" /\ j1.completed_at = {}
        THEN [j1 EXCEPT !.completed_at = {t}]
        ELSE j1

JobSaveNoStamp(job, newid, t) ==
    IF job.job_id = 0 THEN [job EXCEPT !.job_id = newid] ELSE job

\* Job.save: job_id generated when blank, completed_at stamped when the
\* status is 'completed' and no timestamp is stored yet.
JobSave(job, newid, t) ==
    LET j1 == IF job.job_id = 0 THEN [job EXCEPT !.job_id = newid] ELSE job
    IN  IF j1.status = "completed" /\ j1.completed_at = {}
        THEN [j1 EXCEPT !.completed_at = {t}]
        ELSE j1

JobIdsInUse == {jobs[k].job_id : k \in 1 .. Len(jobs)}

JobIdNeverTaken(jid) == FALSE

\* Job.job_id is unique: the insert of a row whose job_id is stored already
\* raises IntegrityError.
JobIdTaken(jid) == jid \in JobIdsInUse

\* get_object: the row whose job_id equals the URL argument (0 when none)
Lookup(jid) ==
    IF \E k \in 1 .. Len(jobs) : jobs[k].job_id = jid
    THEN CHOOSE k \in 1 .. Len(jobs) : jobs[k].job_id = jid
    ELSE 0

\* ----------------------------------------------------------- Topic table
Committed == "committed"

\* Rows a request can read: committed ones and its own.
Visible(p, t) == \E r \in topics : r.title = t /\ r.owner \in {Committed, p}

NeverBlocked(p, t) == FALSE

\* A unique-index insert waits while another transaction holds an
\* uncommitted row with the same title.
Blocked(p, t) == \E r \in topics : r.title = t /\ r.owner \notin {Committed, p}

TopicInsertRowsNoUnique(owner, t) == topics \cup {[title |-> t, owner |-> owner]}

\* The insert half of Topic.objects.get_or_create.  Topic.title is unique:
\* when a row with the title exists the insert is refused and the existing
\* row is read again.
TopicInsertRows(owner, t) ==
    IF \E r \in topics : r.title = t
    THEN topics
    ELSE topics \cup {[title |-> t, owner |-> owner]}

\* leaving transaction.atomic() normally
CommitRows(p) ==
    {[r EXCEPT !.owner = Committed] : r \in {x \in topics : x.owner = p}}
      \cup {x \in topics : x.owner # p}

RollbackRowsKept(p) == CommitRows(p)

\* leaving transaction.atomic() by an exception
RollbackRows(p) == {r \in topics : r.owner # p}

NoImage == [mode |-> None]
\* no record yet: kind of record, row in the table, file on disk, number of
\* saves of the row, number of files written by normalization, and the
\* storage and table events of delete
NoMedia ==
    [kind |-> None, row |-> FALSE, file |-> FALSE, saves |-> 0, writes |-> 0,
     events |-> << >>]

\* ------------------------------------------------------------------ Init
Init ==
    /\ jobs = << >>
    /\ topics = {}
    /\ pc = [p \in Procs |-> "idle"]
    /\ req = [p \in Procs |-> NoReq]
    /\ last = NoResp
    /\ now = 1
    /\ jobimages = {}
    /\ accounts = {}
    /\ profiles = {}
    /\ sessions = {}
    /\ img = NoImage
    /\ stored = NoImage
    /\ media = NoMedia

\* ---------------------------------------------------------------- Create
\* serializer.is_valid() for POST: required fields and the status choice.
CreateFieldErrors(i) ==
    (IF i.room_id = 0 THEN {"room_id"} ELSE {})
      \cup (IF i.topic = None THEN {"topic_data"} ELSE {})
      \cup (IF i.status # None /\ i.status \notin STATUS_CHOICES THEN {"status"} ELSE {})

CreateErrorsNoTopicCheck(i) ==
    IF i.room_id = 0 \/ i.room_id \notin Rooms THEN {"room_id"} ELSE {}

\* The checks of JobSerializer.create that precede the first write; {} when
\* they pass.
CreateErrors(i) ==
    IF CreateFieldErrors(i) # {} THEN CreateFieldErrors(i)
    ELSE IF i.room_id = 0 THEN {"room_id"}
    ELSE IF i.topic = None \/ i.topic = NoTitle THEN {"topic_data"}
    ELSE IF i.room_id \notin Rooms THEN {"room_id"}
    ELSE {}

CreateErrorMsg(i) ==
    IF "status" \in CreateFieldErrors(i) /\ CreateFieldErrors(i) = {"status"} THEN InvalidChoice
    ELSE IF CreateFieldErrors(i) # {} THEN Required
    ELSE IF i.room_id = 0 THEN Required
    ELSE IF i.topic = None \/ i.topic = NoTitle THEN Required
    ELSE InvalidRoom

\* JobSerializer.create up to the first write: validation, the room lookup
\* and the read half of Topic.objects.get_or_create.  The guard stops new
\* create requests once MaxJobs rows are stored.
CreateBegin(p, u, i) ==
    /\ pc[p] = "idle"
    /\ Len(jobs) < MaxJobs
    /\ UNCHANGED <<jobs, topics, now, jobimages, accountVars, imageVars>>
    /\ IF CreateErrors(i) # {}
       THEN /\ last' = Response(i, 400, CreateErrors(i), CreateErrorMsg(i))
            /\ UNCHANGED <<pc, req>>
       ELSE /\ pc' = [pc EXCEPT ![p] = IF Visible(p, i.topic) THEN "job_create"
                                       ELSE "topic_insert"]
            /\ req' = [req EXCEPT ![p] = [user |-> u, data |-> i,
                                          got |-> IF Visible(p, i.topic) THEN "found"
                                                  ELSE None]]
            /\ UNCHANGED last

TopicInsert(p) ==
    /\ pc[p] = "topic_insert"
    /\ ~Blocked(p, req[p].data.topic)
    /\ topics' = TopicInsertRows(p, req[p].data.topic)
    /\ pc' = [pc EXCEPT ![p] = "job_create"]
    /\ req' = [req EXCEPT ![p].got = IF \E r \in topics : r.title = req[p].data.topic
                                     THEN "refetched" ELSE "created"]
    /\ UNCHANGED <<jobs, last, now, jobimages, accountVars, imageVars>>

\* ------------------------------------------------------------ JobImage
FileKinds == {"ok", "corrupt"}       \* an upload PIL can decode / cannot decode
\* request.FILES.getlist('images'): up to MaxFiles uploads
FileLists == UNION {[1 .. n -> FileKinds] : n \in 0 .. MaxFiles}

JobImageRowsDecodable(u, files, pk) ==
    {[id |-> Cardinality(jobimages) + n, job |-> pk, uploaded_by |-> u,
      normalized |-> TRUE] : n \in {m \in 1 .. Len(files) : files[m] = "ok"}}

JobImageRowsFirstOnly(u, files, pk) ==
    {[id |-> Cardinality(jobimages) + n, job |-> pk, uploaded_by |-> u,
      normalized |-> files[n] = "ok"] : n \in (1 .. Len(files)) \cap {1}}

\* for image in images: JobImage.objects.create(job=job, image=image,
\* uploaded_by=request.user).  JobImage.save catches the exception of
\* process_image and stores the row with the file as uploaded.
JobImageRows(u, files, pk) ==
    {[id |-> Cardinality(jobimages) + n, job |-> pk, uploaded_by |-> u,
      normalized |-> files[n] = "ok"] : n \in 1 .. Len(files)}

NewJobUnattributed(u, i, jid, t) ==
    JobSave([job_id |-> 0, user |-> u, updated_by |-> None,
             status |-> IF i.status = None THEN "pending" ELSE i.status,
             completed_at |-> {}, rooms |-> {i.room_id}, topics |-> {i.topic},
             pm |-> i.pm, property |-> {}], jid, t)

\* Job.objects.create(**validated_data, user=request.user): perform_create
\* has put updated_by = request.user into validated_data.
NewJob(u, i, jid, t) ==
    JobSave([job_id |-> 0, user |-> u, updated_by |-> u,
             status |-> IF i.status = None THEN "pending" ELSE i.status,
             completed_at |-> {}, rooms |-> {i.room_id}, topics |-> {i.topic},
             pm |-> i.pm, property |-> {}], jid, t)

\* Job.objects.create, rooms.add, topics.add, the JobImage rows and the end
\* of the atomic block; jid is the value generate_job_id draws.  The
\* property_id key is still in validated_data and reaches the Job
\* constructor, which raises on it; a job_id already stored violates the
\* unique constraint.  An exception leaves the block through rollback and is
\* re-raised as ValidationError({'detail': str(e)}).
JobCreate(p, jid) ==
    /\ pc[p] = "job_create"
    /\ IF req[p].data.property_id # None \/ JobIdTaken(jid)
       THEN /\ topics' = RollbackRows(p)
            /\ jobs' = jobs
            /\ jobimages' = jobimages
            /\ last' = Response(req[p].data, 400, {"detail"}, ExceptionText)
       ELSE /\ topics' = CommitRows(p)
            /\ jobs' = Append(jobs, NewJob(req[p].user, req[p].data, jid, now))
            /\ jobimages' = jobimages \cup JobImageRows(req[p].user, req[p].data.files,
                                                         Len(jobs) + 1)
            /\ last' = Response(req[p].data, 201, {}, None)
    /\ pc' = [pc EXCEPT ![p] = "idle"]
    /\ req' = [req EXCEPT ![p] = NoReq]
    /\ UNCHANGED <<now, accountVars, imageVars>>

\* ------------------------------------------- completion stamp in the views
StampOrClear(job, s, t) == IF s = "completed" THEN {t} ELSE {}

\* update_status and perform_update: stamp when the request sets
\* 'completed' on a job whose stored status is not 'completed'.
StampOnComplete(job, s, t) ==
    IF s = "completed" /\ job.status # "completed" THEN {t} ELSE job.completed_at

\* ---------------------------------------------------------- UpdateStatus
UpdateStatus(u, i) ==
    /\ UNCHANGED <<topics, pc, req, now, jobimages, accountVars, imageVars>>
    /\ LET k == Lookup(i.job_id)
           s == i.status
       IN  IF k = 0
           THEN /\ jobs' = jobs
                /\ last' = Response(i, 404, {"detail"}, NotFound404)
           ELSE IF s # None /\ s # "" /\ s \notin STATUS_CHOICES
           THEN /\ jobs' = jobs
                /\ last' = Response(i, 400, {"detail"}, InvalidStatus)
           ELSE IF s = None
           THEN /\ jobs' = jobs
                /\ last' = Response(i, 500, {}, ExceptionText)
           ELSE LET j1 == [jobs[k] EXCEPT
                             !.updated_by = u,
                             !.completed_at = StampOnComplete(jobs[k], s, now),
                             !.status = s]
                IN  /\ jobs' = [jobs EXCEPT ![k] = JobSave(j1, 0, now)]
                    /\ last' = Response(i, 200, {}, None)

\* ---------------------------------------------------------------- Update
\* serializer.is_valid() for PUT (partial = FALSE) and PATCH (partial = TRUE)
UpdateFieldErrors(i) ==
    (IF ~i.partial /\ i.room_id = 0 THEN {"room_id"} ELSE {})
      \cup (IF ~i.partial /\ i.topic = None THEN {"topic_data"} ELSE {})
      \cup (IF i.status # None /\ i.status \notin STATUS_CHOICES THEN {"status"} ELSE {})

RoomsReplace(job, r) == IF r \in Rooms THEN {r} ELSE job.rooms

\* instance.rooms.add(room) when the id resolves
RoomsAdd(job, r) == IF r \in Rooms THEN job.rooms \cup {r} ELSE job.rooms

PropertyOrClear(job, pr) == IF pr \in Properties THEN {pr} ELSE {}

\* instance.property = property_obj when the id resolves
PropertyAssign(job, pr) == IF pr \in Properties THEN {pr} ELSE job.property

\* perform_update followed by JobSerializer.update
Update(u, i) ==
    /\ i.topic \in Titles => ~Blocked(None, i.topic)
    /\ UNCHANGED <<pc, req, now, jobimages, accountVars, imageVars>>
    /\ LET k == Lookup(i.job_id)
       IN  IF k = 0
           THEN /\ UNCHANGED <<jobs, topics>>
                /\ last' = Response(i, 404, {"detail"}, NotFound404)
           ELSE IF UpdateFieldErrors(i) # {}
           THEN /\ UNCHANGED <<jobs, topics>>
                /\ last' = Response(i, 400, UpdateFieldErrors(i),
                                    IF UpdateFieldErrors(i) = {"status"}
                                    THEN InvalidChoice ELSE Required)
           ELSE LET j1 == [jobs[k] EXCEPT
                             !.status = IF i.status = None THEN @ ELSE i.status,
                             !.pm = IF i.partial THEN @ ELSE FALSE,
                             !.updated_by = u,
                             !.completed_at = IF i.status = None THEN @
                                              ELSE StampOnComplete(jobs[k], i.status, now),
                             !.property = PropertyAssign(jobs[k], i.property_id),
                             !.rooms = RoomsAdd(jobs[k], i.room_id),
                             !.topics = IF i.topic \in Titles
                                        THEN @ \cup {i.topic} ELSE @]
                IN  /\ topics' = IF i.topic \in Titles
                                 THEN TopicInsertRows(Committed, i.topic)
                                 ELSE topics
                    /\ jobs' = [jobs EXCEPT ![k] = JobSave(j1, 0, now)]
                    /\ last' = Response(i, 200, {}, None)

\* -------------------------------------------------------------- accounts
Emails == {"a@x", "b@x"}
Subs == {"g1", "g2"}                 \* Google account ids (idinfo['sub'])
PictureUrl == "https://picture"      \* idinfo['picture']
LocalPart(e) == IF e = "a@x" THEN "a" ELSE "b"
Username(base, n) == [base |-> base, n |-> n]      \* base, base1, base2, ...
NoName == Username(None, 0)

AccountPayload(op, name, email, sub, picture) ==
    [op |-> op, username |-> name, email |-> email, sub |-> sub, picture |-> picture]

Usernames == {a.username : a \in accounts}

\* google_auth: the local part of the email, then with a counter appended
\* until no user has the name.
DeriveUsername(e) ==
    Username(LocalPart(e),
             CHOOSE n \in 0 .. Cardinality(accounts) :
                 /\ Username(LocalPart(e), n) \notin Usernames
                 /\ \A m \in 0 .. n - 1 : Username(LocalPart(e), m) \in Usernames)

ProfileInsertRowsNoUnique(rows, name, gid) ==
    rows \cup {[id |-> Cardinality(rows) + 1, user |-> name, google_id |-> gid,
                picture |-> None]}

\* UserProfile.objects.create(user=..., google_id=...).  user is a
\* OneToOneField: a second row for the same user is refused with
\* IntegrityError and the table is left as it was.
ProfileInsertRows(rows, name, gid) ==
    IF \E r \in rows : r.user = name
    THEN rows
    ELSE rows \cup {[id |-> Cardinality(rows) + 1, user |-> name, google_id |-> gid,
                     picture |-> None]}

\* post_save of User: create_user_profile when the row is new, then
\* save_user_profile (create when the user has no profile; save it).
UserPostSave(rows, name, created) ==
    LET r1 == IF created THEN ProfileInsertRows(rows, name, None) ELSE rows
    IN  IF \E r \in r1 : r.user = name THEN r1 ELSE ProfileInsertRows(r1, name, None)

\* UserProfile.objects.get_or_create(user=user)
ProfileGetOrCreate(rows, name) ==
    IF \E r \in rows : r.user = name THEN rows ELSE ProfileInsertRows(rows, name, None)

UserProfileSaveRaising(row) == [saved |-> row.picture = None, row |-> row]

\* UserProfile.save: with a profile_image set the image is opened and
\* re-encoded inside try/except; the picture assigned by
\* update_from_google_data is a URL string, which Image.open cannot read.
\* The exception is printed and the row is saved as it is.
UserProfileSave(row) == [saved |-> TRUE, row |-> row]

\* Session.objects.create(user=user, session_token=str(uuid.uuid4()), ...):
\* a row whose token no stored session has
NewSession(name) ==
    [id |-> CHOOSE n \in 1 .. Cardinality(sessions) + 1 :
                /\ \A x \in sessions : x.id # n
                /\ \A m \in 1 .. n - 1 : \E x \in sessions : x.id = m,
     user |-> name]

\* RegisterView.post with UserSerializer
Register(i) ==
    /\ Cardinality(accounts) < MaxAccounts
    /\ Cardinality(sessions) < MaxSessions
    /\ UNCHANGED <<jobVars, imageVars>>
    /\ IF i.username \in Usernames
       THEN /\ last' = Response(i, 400, {"username"}, "A user with that username already exists.")
            /\ UNCHANGED accountVars
       ELSE IF \E a \in accounts : a.email = i.email
       THEN /\ last' = Response(i, 400, {"email"}, "A user with that email already exists.")
            /\ UNCHANGED accountVars
       ELSE /\ accounts' = accounts \cup {[username |-> i.username, email |-> i.email]}
            /\ profiles' = ProfileGetOrCreate(UserPostSave(profiles, i.username, TRUE),
                                              i.username)
            /\ sessions' = sessions \cup {NewSession(i.username)}
            /\ last' = Response(i, 201, {}, None)

\* user.save() on a stored account
UserSave(i) ==
    /\ i.username \in Usernames
    /\ profiles' = UserPostSave(profiles, i.username, FALSE)
    /\ last' = Response(i, 200, {}, None)
    /\ UNCHANGED <<jobVars, imageVars, accounts, sessions>>

\* LoginView.post and login_view: a session is created for the stored user
\* whose password matches (ok)
Login(i, ok) ==
    /\ Cardinality(sessions) < MaxSessions
    /\ UNCHANGED <<jobVars, imageVars, accounts, profiles>>
    /\ IF i.username \in Usernames /\ ok
       THEN /\ sessions' = sessions \cup {NewSession(i.username)}
            /\ last' = Response(i, 200, {"session_token"}, None)
       ELSE /\ sessions' = sessions
            /\ last' = Response(i, 401, {"detail"}, "Invalid credentials")

\* LogoutView.post by the authenticated user i.username with the
\* session_token of session sid
Logout(i, sid) ==
    /\ i.username \in Usernames
    /\ sessions' = {x \in sessions : ~(x.id = sid /\ x.user = i.username)}
    /\ last' = Response(i, 204, {}, None)
    /\ UNCHANGED <<jobVars, imageVars, accounts, profiles>>

MultipleObjects == "get() returned more than one Session"

\* CustomSessionView.post by the authenticated user i.username:
\* Session.objects.update_or_create(user=request.user, defaults=...) gets
\* the row with that user.  No row: one is created.  One row: it is given
\* a new token.  More than one row: get() raises MultipleObjectsReturned,
\* which the view does not catch.
SessionPost(i) ==
    /\ i.username \in Usernames
    /\ UNCHANGED <<jobVars, imageVars, accounts, profiles>>
    /\ LET mine == {x \in sessions : x.user = i.username}
       IN  IF mine = {}
           THEN /\ Cardinality(sessions) < MaxSessions
                /\ sessions' = sessions \cup {NewSession(i.username)}
                /\ last' = Response(i, 200, {"session_token"}, None)
           ELSE IF Cardinality(mine) = 1
           THEN /\ sessions' = sessions
                /\ last' = Response(i, 200, {"session_token"}, None)
           ELSE /\ sessions' = sessions
                /\ last' = Response(i, 500, {}, MultipleObjects)

AuthFailed == "Authentication failed"

\* google_auth for a verified ID token g.  The requests of one view run
\* here as one step.  None of the writes is inside a transaction: what was
\* written before an exception stays.
GoogleAuth(g) ==
    /\ Cardinality(sessions) < MaxSessions
    /\ UNCHANGED <<jobVars, imageVars>>
    /\ LET byGid == {r \in profiles : r.google_id = g.sub}
           byEmail == {a \in accounts : a.email = g.email}
       IN  IF g.email = None
           THEN /\ last' = Response(g, 400, {"error"}, "Email not provided by Google")
                /\ UNCHANGED accountVars
           ELSE IF Cardinality(byGid) > 1 \/ (byGid = {} /\ Cardinality(byEmail) > 1)
           THEN \* MultipleObjectsReturned
                /\ last' = Response(g, 500, {"error", "detail"}, AuthFailed)
                /\ UNCHANGED accountVars
           ELSE IF byGid = {} /\ byEmail = {}
           THEN \* User.objects.create fires post_save, which creates the
                \* profile; UserProfile.objects.create then inserts a second
                \* row for the same user.
                LET name == DeriveUsername(g.email)
                    r1 == UserPostSave(profiles, name, TRUE)
                    r2 == ProfileInsertRows(r1, name, g.sub)
                IN  /\ Cardinality(accounts) < MaxAccounts
                    /\ accounts' = accounts \cup {[username |-> name, email |-> g.email]}
                    /\ profiles' = r2
                    /\ IF r2 = r1
                       THEN /\ last' = Response(g, 500, {"error", "detail"}, AuthFailed)
                            /\ sessions' = sessions
                       ELSE /\ last' = Response(g, 200, {}, None)
                            /\ sessions' = sessions \cup {NewSession(name)}
           ELSE LET name == IF byGid # {} THEN (CHOOSE r \in byGid : TRUE).user
                            ELSE (CHOOSE a \in byEmail : TRUE).username
                    mine == {r \in profiles : r.user = name}
                IN  IF mine = {}
                    THEN \* user.userprofile: RelatedObjectDoesNotExist
                         /\ last' = Response(g, 500, {"error", "detail"}, AuthFailed)
                         /\ UNCHANGED accountVars
                    ELSE LET p0 == CHOOSE r \in mine : TRUE
                             \* update_from_google_data
                             p1 == [p0 EXCEPT !.google_id = g.sub,
                                              !.picture = IF g.picture = None THEN @
                                                          ELSE g.picture]
                         IN  IF UserProfileSave(p1).saved
                             THEN /\ profiles' = (profiles \ {p0}) \cup {UserProfileSave(p1).row}
                                  /\ accounts' = {IF a.username = name
                                                  THEN [a EXCEPT !.email = g.email]
                                                  ELSE a : a \in accounts}
                                  /\ sessions' = sessions \cup {NewSession(name)}
                                  /\ last' = Response(g, 200, {}, None)
                             ELSE /\ last' = Response(g, 500, {"error", "detail"}, AuthFailed)
                                  /\ UNCHANGED accountVars

\* -------------------------------------------------- image normalization
\* A decoded image, reduced to its colour mode and one pixel: the pixel's
\* brightness and, for the modes with an alpha band, its alpha (0 fully
\* transparent, 255 opaque).
Modes == {"RGB", "L", "P", "RGBA", "LA", "PA"}       \* Image.open(...).mode
HasAlphaBand(mode) == mode \in {"RGBA", "LA", "PA"}  \* 'A' in img.getbands()
Shades == {0, 85, 170, 255}
Alphas == {0, 128, 255}
White == 255
Dims == {1, 2, 299, 300, 301, 450, 799, 800, 801, 1201, 1600, 2400, 5000}
\* an uploaded file: nothing has been done to it yet
Images ==
    {[mode |-> m, shade |-> v, alpha |-> a, format |-> "upload",
      width |-> w, height |-> h, steps |-> << >>] :
        m \in Modes, v \in Shades, a \in Alphas, w \in Dims, h \in Dims} \
    {im \in [mode : Modes, shade : Shades, alpha : Alphas, format : {"upload"},
             width : Dims, height : Dims, steps : {<< >>}] :
        ~HasAlphaBand(im.mode) /\ im.alpha # 255}

MAX_SIZE == 800          \* JobImage.MAX_SIZE = (800, 800)
ProfileMaxSize == 300    \* output_size = (300, 300)

\* img = Image.open(file): a fresh image object
Decode(file) == [file EXCEPT !.steps = <<"decode">>]

\* background = Image.new('RGB', img.size, (255, 255, 255));
\* background.paste(img, mask=img.getchannel('A'))
PasteOnWhite(im) ==
    [im EXCEPT !.mode = "RGB",
               !.shade = (im.shade * im.alpha + White * (255 - im.alpha)) \div 255,
               !.alpha = 255,
               !.steps = Append(@, "flatten")]

\* img.convert('RGB'): the alpha band is dropped, the colour kept
ConvertRGB(im) == [im EXCEPT !.mode = "RGB", !.alpha = 255, !.steps = Append(@, "convert")]

Abs(n) == IF n < 0 THEN 0 - n ELSE n

ThumbnailClamp(im, b) ==
    [im EXCEPT !.width = IF im.width > b THEN b ELSE @,
               !.height = IF im.height > b THEN b ELSE @,
               !.steps = Append(@, "downscale")]

\* img.thumbnail((b, b), LANCZOS).  PIL keeps the image when it fits the
\* box; otherwise the side that touches the box becomes b and the other is
\* round_aspect(number): the one of floor(number), ceil(number) whose ratio
\* is nearer to the image's (floor on a tie), and at least 1.  The
\* distances are compared as integer cross products.
Thumbnail(im, b) ==
    LET w == im.width
        h == im.height
        \* x / y >= aspect, with x = y = b: the height touches the box
        tall == b * h >= b * w
        xf == (b * w) \div h
        xc == IF (b * w) % h = 0 THEN xf ELSE xf + 1
        x1 == IF Abs(w * b - xf * h) <= Abs(w * b - xc * h) THEN xf ELSE xc
        yf == (b * h) \div w
        yc == IF (b * h) % w = 0 THEN yf ELSE yf + 1
        y1 == IF yf = 0 \/ Abs(w * yf - b * h) * yc <= Abs(w * yc - b * h) * yf
              THEN yf ELSE yc
        one(n) == IF n < 1 THEN 1 ELSE n
    IN  IF b >= w /\ b >= h
        THEN [im EXCEPT !.steps = Append(@, "downscale")]
        ELSE [im EXCEPT !.width = IF tall THEN one(x1) ELSE b,
                        !.height = IF tall THEN b ELSE one(y1),
                        !.steps = Append(@, "downscale")]

\* img.save(output, fmt, quality=85, optimize=True)
Encode(im, fmt) == [im EXCEPT !.format = fmt, !.steps = Append(@, "encode")]

\* JobImage.process_image
ProcessJobImage(file) ==
    LET im == Decode(file)
        t == IF im.width > MAX_SIZE \/ im.height > MAX_SIZE THEN Thumbnail(im, MAX_SIZE)
             ELSE im
        a == IF t.mode \in {"RGBA", "LA"} THEN PasteOnWhite(t) ELSE t
        b == IF a.mode # "RGB" THEN ConvertRGB(a) ELSE a
    IN  Encode(b, "JPEG")

\* UserProfile.save, from Image.open to img.save
ProcessProfileImage(file) ==
    LET im == Decode(file)
        a == IF im.mode \in {"RGBA", "LA"} THEN PasteOnWhite(im)
             ELSE IF im.mode # "RGB" THEN ConvertRGB(im)
             ELSE im
        t == IF a.height > ProfileMaxSize \/ a.width > ProfileMaxSize
             THEN Thumbnail(a, ProfileMaxSize)
             ELSE a
    IN  Encode(t, "WEBP")

\* field.save(name, ContentFile(...), save=False): the bytes reach storage
WriteFile(im) == [im EXCEPT !.steps = Append(@, "write")]

InitPipeline ==
    /\ jobs = << >>
    /\ topics = {}
    /\ pc = [p \in Procs |-> "idle"]
    /\ req = [p \in Procs |-> NoReq]
    /\ last = NoResp
    /\ now = 1
    /\ jobimages = {}
    /\ accounts = {}
    /\ profiles = {}
    /\ sessions = {}
    /\ img \in Images
    /\ stored = NoImage
    /\ media = NoMedia

AlwaysNew(m) == TRUE

\* is_new = self.pk is None
IsNew(m) == ~m.row

\* JobImage.objects.create(image=upload): the save that creates the row
NormalizeJobImage ==
    /\ media.kind = None
    /\ IsNew(media)
    /\ stored' = WriteFile(ProcessJobImage(img))
    /\ media' = [media EXCEPT !.kind = "job", !.row = TRUE, !.file = TRUE,
                              !.saves = 1, !.writes = 1]
    /\ UNCHANGED <<jobVars, accountVars, last, img>>

\* JobImage.save of a row that exists: nothing is processed when is_new is
\* false; with is_new true the file the row points at would be processed.
JobImageSave ==
    /\ media.kind = "job" /\ media.row
    /\ media.saves < MaxSaves
    /\ IF IsNew(media) /\ media.file
       THEN /\ stored' = WriteFile(ProcessJobImage(stored))
            /\ media' = [media EXCEPT !.saves = @ + 1, !.writes = @ + 1]
       ELSE /\ stored' = stored
            /\ media' = [media EXCEPT !.saves = @ + 1]
    /\ UNCHANGED <<jobVars, accountVars, last, img>>

\* the first save of a UserProfile that carries a profile image
NormalizeProfileImage ==
    /\ media.kind = None
    /\ stored' = WriteFile(ProcessProfileImage(img))
    /\ media' = [media EXCEPT !.kind = "profile", !.row = TRUE, !.file = TRUE,
                              !.saves = 1, !.writes = 1]
    /\ UNCHANGED <<jobVars, accountVars, last, img>>

\* UserProfile.save of a stored profile with a profile image, called
\* directly or by save_user_profile after its user was saved: the stored
\* file is opened, processed and written under a new random name.  A file
\* that cannot be opened raises inside the try; the row is saved as it is.
UserProfileResave ==
    /\ media.kind = "profile" /\ media.row
    /\ media.saves < MaxSaves
    /\ IF media.file
       THEN /\ stored' = WriteFile(ProcessProfileImage(stored))
            /\ media' = [media EXCEPT !.saves = @ + 1, !.writes = @ + 1]
       ELSE /\ stored' = stored
            /\ media' = [media EXCEPT !.saves = @ + 1]
    /\ UNCHANGED <<jobVars, accountVars, last, img>>

\* the file disappears from the media directory while the row stays
FileLost ==
    /\ media.row /\ media.file
    /\ media' = [media EXCEPT !.file = FALSE]
    /\ stored' = NoImage
    /\ UNCHANGED <<jobVars, accountVars, last, img>>

RemoveFileUnchecked(m) ==
    IF m.file
    THEN [ok |-> TRUE, m |-> [m EXCEPT !.file = FALSE, !.events = Append(@, "remove_file")]]
    ELSE [ok |-> FALSE, m |-> [m EXCEPT !.events = Append(@, "FileNotFoundError")]]

\* if os.path.isfile(self.image.path): os.remove(self.image.path)
RemoveFile(m) ==
    IF m.file
    THEN [ok |-> TRUE, m |-> [m EXCEPT !.file = FALSE, !.events = Append(@, "remove_file")]]
    ELSE [ok |-> TRUE, m |-> m]

\* JobImage.delete: the file first, then super().delete(); an exception
\* of the file removal would leave the row
JobImageDelete ==
    /\ media.kind = "job" /\ media.row
    /\ LET r == RemoveFile(media)
       IN  /\ media' = IF r.ok
                       THEN [r.m EXCEPT !.row = FALSE, !.events = Append(@, "delete_row")]
                       ELSE r.m
           /\ stored' = IF r.m.file THEN stored ELSE NoImage
    /\ UNCHANGED <<jobVars, accountVars, last, img>>

\* ----------------------------------------------------------- environment
Tick ==
    /\ now < MaxTime
    /\ now' = now + 1
    /\ UNCHANGED <<jobs, topics, pc, req, last, jobimages, accountVars, imageVars>>

\* ---------------------------------------------------------------- inputs
Payload(op, j, r, t, pr, pm, s, pa) ==
    [op |-> op, job_id |-> j, room_id |-> r, topic |-> t, property_id |-> pr,
     pm |-> pm, status |-> s, partial |-> pa, files |-> << >>]

\* Status lifecycle: one shape of create, every status payload.
CreateInputs ==
    {Payload("create", 0, 1, "t1", None, FALSE, s, FALSE) : s \in {None, "completed"}}
StatusInputs ==
    {Payload("update_status", j, 0, None, None, FALSE, s, FALSE) :
        j \in JobIdSpace, s \in STATUS_CHOICES \cup {None, "", "bogus"}}
UpdateInputs ==
    {Payload("update", j, 0, None, None, FALSE, s, TRUE) :
        j \in JobIdSpace, s \in {"completed", "in_progress", "bogus"}}

Next ==
    \/ \E p \in OneWorker, u \in Users : \E i \in CreateInputs : CreateBegin(p, u, i)
    \/ \E p \in OneWorker : TopicInsert(p)
    \/ \E p \in OneWorker : \E jid \in JobIdSpace : JobCreate(p, jid)
    \/ \E u \in Users : \E i \in StatusInputs : UpdateStatus(u, i)
    \/ \E u \in Users : \E i \in UpdateInputs : Update(u, i)
    \/ Tick

Spec == Init /\ [][Next]_vars

\* Update of related entities: one shape of create, every room_id payload.
\* PATCH carries room_id alone; PUT must also carry topic_data.
CreateInputsU == {Payload("create", 0, 1, "t1", None, FALSE, None, FALSE)}
UpdateInputsU ==
    {Payload("update", j, r, IF pa THEN None ELSE "t1", None, FALSE, None, pa) :
        j \in JobIdSpace, r \in {0, MissingRoom} \cup Rooms, pa \in BOOLEAN}

NextUpdate ==
    \/ \E p \in OneWorker, u \in Users : \E i \in CreateInputsU : CreateBegin(p, u, i)
    \/ \E p \in OneWorker : TopicInsert(p)
    \/ \E p \in OneWorker : \E jid \in JobIdSpace : JobCreate(p, jid)
    \/ \E u \in Users : \E i \in UpdateInputsU : Update(u, i)

SpecUpdate == Init /\ [][NextUpdate]_vars

\* Topic get-or-create: concurrent creates and updates naming topic titles.
CreateInputsT ==
    {Payload("create", 0, 1, t, None, FALSE, None, FALSE) : t \in Titles}
UpdateInputsT ==
    {Payload("update", j, 0, t, None, FALSE, None, TRUE) : j \in JobIdSpace, t \in Titles}

NextTopic ==
    \/ \E p \in Procs, u \in Users : \E i \in CreateInputsT : CreateBegin(p, u, i)
    \/ \E p \in Procs : TopicInsert(p)
    \/ \E p \in Procs : \E jid \in JobIdSpace : JobCreate(p, jid)
    \/ \E u \in Users : \E i \in UpdateInputsT : Update(u, i)

SpecTopic == Init /\ [][NextTopic]_vars

\* Job creation: every shape of the create payload.
CreateInputsC ==
    {Payload("create", 0, r, t, pr, pm, None, FALSE) :
        r \in {0, 1, MissingRoom}, t \in {None, NoTitle, "t1"},
        pr \in {None, MissingProperty} \cup Properties, pm \in BOOLEAN}

NextCreate ==
    \/ \E p \in Procs, u \in Users : \E i \in CreateInputsC : CreateBegin(p, u, i)
    \/ \E p \in Procs : TopicInsert(p)
    \/ \E p \in Procs : \E jid \in JobIdSpace : JobCreate(p, jid)

SpecCreate == Init /\ [][NextCreate]_vars

\* Update with references that do not resolve: PATCH carrying a room_id, a
\* property_id and a status.
UpdateInputsM ==
    {Payload("update", j, r, None, pr, FALSE, s, TRUE) :
        j \in JobIdSpace, r \in {0, 2, MissingRoom},
        pr \in {None, MissingProperty} \cup Properties, s \in {None, "in_progress"}}

NextMissing ==
    \/ \E p \in OneWorker, u \in Users : \E i \in CreateInputsU : CreateBegin(p, u, i)
    \/ \E p \in OneWorker : TopicInsert(p)
    \/ \E p \in OneWorker : \E jid \in JobIdSpace : JobCreate(p, jid)
    \/ \E u \in Users : \E i \in UpdateInputsM : Update(u, i)

SpecMissing == Init /\ [][NextMissing]_vars

\* Uploads: creates carrying every list of files, accepted ones and ones
\* that fail inside the atomic block.
CreateInputsI ==
    {[Payload("create", 0, 1, "t1", pr, pm, None, FALSE) EXCEPT !.files = f] :
        f \in FileLists, pr \in {None} \cup Properties, pm \in BOOLEAN}

NextImages ==
    \/ \E p \in OneWorker, u \in Users : \E i \in CreateInputsI : CreateBegin(p, u, i)
    \/ \E p \in OneWorker : TopicInsert(p)
    \/ \E p \in OneWorker : \E jid \in JobIdSpace : JobCreate(p, jid)

SpecImages == Init /\ [][NextImages]_vars

\* Accounts: registration, Google sign-in and saves of stored users.
RegisterInputs ==
    {AccountPayload("register", Username(b, 0), e, None, None) :
        b \in {"a", "b"}, e \in Emails}
GoogleInputs ==
    {AccountPayload("google_auth", NoName, e, g, pic) :
        e \in Emails \cup {None}, g \in Subs, pic \in {None, PictureUrl}}
SaveInputs ==
    {AccountPayload("user_save", Username(b, n), None, None, None) :
        b \in {"a", "b"}, n \in 0 .. 1}

NextAccounts ==
    \/ \E i \in RegisterInputs : Register(i)
    \/ \E g \in GoogleInputs : GoogleAuth(g)
    \/ \E i \in SaveInputs : UserSave(i)

SpecAccounts == Init /\ [][NextAccounts]_vars

\* Sessions: registrations, logins, Google sign-ins, logouts and session
\* issuance for the stored users.
LoginInputs == {AccountPayload("login", Username(b, 0), None, None, None) : b \in {"a", "b"}}
LogoutInputs == {AccountPayload("logout", Username(b, 0), None, None, None) : b \in {"a", "b"}}
SessionInputs ==
    {AccountPayload("session_post", Username(b, 0), None, None, None) : b \in {"a", "b"}}
GoogleInputsS ==
    {AccountPayload("google_auth", NoName, e, "g1", None) : e \in Emails}

NextSessions ==
    \/ \E i \in RegisterInputs : Register(i)
    \/ \E g \in GoogleInputsS : GoogleAuth(g)
    \/ \E i \in LoginInputs : \E ok \in BOOLEAN : Login(i, ok)
    \/ \E i \in LogoutInputs : \E sid \in 1 .. MaxSessions : Logout(i, sid)
    \/ \E i \in SessionInputs : SessionPost(i)

SpecSessions == Init /\ [][NextSessions]_vars

\* Images that cannot be processed: uploads of a create, and the picture of
\* a Google sign-in.
CreateInputsD ==
    {[Payload("create", 0, 1, "t1", None, FALSE, None, FALSE) EXCEPT !.files = f] :
        f \in FileLists}
RegisterInputsD == {AccountPayload("register", Username("a", 0), "a@x", None, None)}
GoogleInputsD ==
    {AccountPayload("google_auth", NoName, "a@x", "g1", pic) : pic \in {None, PictureUrl}}

NextDecode ==
    \/ \E p \in OneWorker, u \in Users : \E i \in CreateInputsD : CreateBegin(p, u, i)
    \/ \E p \in OneWorker : TopicInsert(p)
    \/ \E p \in OneWorker : \E jid \in JobIdSpace : JobCreate(p, jid)
    \/ \E i \in RegisterInputsD : Register(i)
    \/ \E g \in GoogleInputsD : GoogleAuth(g)

SpecDecode == Init /\ [][NextDecode]_vars

\* Job ids: two workers creating jobs whose generated ids may collide, and
\* status changes of the stored jobs.
IdDraws == 1 .. MaxJobs + 1
StatusInputsN ==
    {Payload("update_status", j, 0, None, None, FALSE, "in_progress", FALSE) : j \in IdDraws}

NextIds ==
    \/ \E p \in Procs, u \in Users : \E i \in CreateInputsU : CreateBegin(p, u, i)
    \/ \E p \in Procs : TopicInsert(p)
    \/ \E p \in Procs : \E jid \in IdDraws : JobCreate(p, jid)
    \/ \E u \in Users : \E i \in StatusInputsN : UpdateStatus(u, i)

SpecIds == Init /\ [][NextIds]_vars

\* Normalization pipeline: every decoded image, through either pipeline.
NextPipeline ==
    \/ NormalizeJobImage
    \/ NormalizeProfileImage

SpecPipeline == InitPipeline /\ [][NextPipeline]_vars

\* Life of one image-bearing record: created, saved again, its file lost,
\* deleted.
NextMedia ==
    \/ NormalizeJobImage
    \/ JobImageSave
    \/ NormalizeProfileImage
    \/ UserProfileResave
    \/ FileLost
    \/ JobImageDelete

SpecMedia == InitPipeline /\ [][NextMedia]_vars

\* Attribution: creates, status changes and updates by two users.
StatusInputsA ==
    {Payload("update_status", j, 0, None, None, FALSE, s, FALSE) :
        j \in JobIdSpace, s \in {"in_progress", "completed", "bogus"}}
UpdateInputsA ==
    {Payload("update", j, 0, None, None, FALSE, s, TRUE) :
        j \in JobIdSpace, s \in {None, "pending", "bogus"}}

NextActor ==
    \/ \E p \in OneWorker, u \in Users : \E i \in CreateInputsU : CreateBegin(p, u, i)
    \/ \E p \in OneWorker : TopicInsert(p)
    \/ \E p \in OneWorker : \E jid \in JobIdSpace : JobCreate(p, jid)
    \/ \E u \in Users : \E i \in StatusInputsA : UpdateStatus(u, i)
    \/ \E u \in Users : \E i \in UpdateInputsA : Update(u, i)

SpecActor == Init /\ [][NextActor]_vars

\* Concurrent creates: two workers, both titles, job ids drawn from a space
\* with room for two jobs.
NextRace ==
    \/ \E p \in Procs, u \in Users : \E i \in CreateInputsT : CreateBegin(p, u, i)
    \/ \E p \in Procs : TopicInsert(p)
    \/ \E p \in Procs : \E jid \in IdDraws : JobCreate(p, jid)

SpecRace == Init /\ [][NextRace]_vars

\* ======================================================= status lifecycle
\* C1: completed_at is assigned at most once: once a job has a completion
\* timestamp, no later operation changes its value, also not a transition
\* away from 'completed' and back.
C1_CompletedAtAssignedOnce ==
    [][\A k \in 1 .. Len(jobs) :
          jobs[k].completed_at # {} => jobs'[k].completed_at = jobs[k].completed_at]_vars

\* C2: completed_at stays empty until a step that stores status 'completed'
\* for the job, and once set it is never cleared.
C2_CompletedAtSetOnlyOnCompletionNeverCleared ==
    [][\A k \in 1 .. Len(jobs') :
          LET old == IF k <= Len(jobs) THEN jobs[k].completed_at ELSE {}
          IN  /\ (old = {} /\ jobs'[k].completed_at # {}) => jobs'[k].status = "completed"
              /\ old # {} => jobs'[k].completed_at # {}]_vars

\* a job that was completed, has left 'completed' and still carries its timestamp
C2_Witness ==
    \E k \in 1 .. Len(jobs) : jobs[k].status \notin {"completed", ""} /\ jobs[k].completed_at # {}

\* C3: UpdateStatus with a status outside STATUS_CHOICES (absent and empty
\* included) answers 400 and leaves every job row as it was.
C3_InvalidStatusRejected ==
    [][\A u \in Users : \A i \in StatusInputs :
          (Lookup(i.job_id) # 0 /\ i.status \notin STATUS_CHOICES /\ UpdateStatus(u, i))
             => (last'.code = 400 /\ jobs' = jobs)]_vars

\* ======================================================== related rooms
\* C4: supplying a room to Update is additive: an accepted Update whose
\* room_id names an existing room leaves that room among the job's rooms,
\* no step removes a room from any job, and the only room a step can add to
\* a stored job is the one named by the Update it accepted.
C4_UpdateRoomAdditive ==
    [][/\ Len(jobs') >= Len(jobs)
       /\ \A k \in 1 .. Len(jobs) :
            /\ jobs[k].rooms \subseteq jobs'[k].rooms
            /\ jobs'[k].rooms # jobs[k].rooms
                 => /\ last'.data.op = "update" /\ last'.code = 200
                    /\ last'.data.job_id = jobs[k].job_id
                    /\ jobs'[k].rooms = jobs[k].rooms \cup {last'.data.room_id}
       /\ (last' # last /\ last'.data.op = "update" /\ last'.code = 200
             /\ last'.data.room_id \in Rooms)
            => \E k \in 1 .. Len(jobs') :
                  /\ jobs'[k].job_id = last'.data.job_id
                  /\ last'.data.room_id \in jobs'[k].rooms]_vars

\* a job created with one room that two updates have brought to three
C4_Witness ==
    /\ last.data.op = "update" /\ last.code = 200 /\ last.data.room_id \in Rooms
    /\ \E k \in 1 .. Len(jobs) :
         /\ jobs[k].job_id = last.data.job_id
         /\ Cardinality(jobs[k].rooms) = 3

\* ======================================================== topic get-or-create
\* C5: under every interleaving of creates and updates naming topic titles,
\* the Topic table never holds two rows with the same title.
C5_TopicTitleUnique ==
    \A t \in Titles : Cardinality({r \in topics : r.title = t}) <= 1

\* a create that missed the title on its read, met the row another request
\* had inserted meanwhile, and went on with that row
C5_Witness ==
    \E p \in Procs :
        /\ pc[p] = "job_create"
        /\ req[p].got = "refetched"
        /\ \E r \in topics : r.title = req[p].data.topic /\ r.owner = Committed

\* ============================================================ job creation
\* C6: a create request that fails leaves no Job row and no Topic row of its
\* own behind.  A request refused before its first write changes neither
\* table; a request that fails inside the atomic block leaves the Job table
\* as before and the Topic table as before without the rows it had inserted.
C6_CreateAllOrNothing ==
    [][/\ (pc' = pc /\ last'.data.op = "create" /\ last'.code # 201)
             => (jobs' = jobs /\ topics' = topics)
       /\ \A p \in Procs :
            (pc[p] = "job_create" /\ pc'[p] = "idle" /\ last'.code # 201)
               => (jobs' = jobs /\ topics' = {r \in topics : r.owner # p})]_vars

\* a create failed after its topic had been inserted, and the topic is gone
C6_Witness ==
    /\ last.data.op = "create" /\ last.code = 400 /\ last.keys = {"detail"}
    /\ ~\E r \in topics : r.title = last.data.topic

PreventiveIncomplete ==
    {i \in CreateInputsC : i.pm /\ (i.room_id = 0 \/ i.topic = None)}

\* C7: a create flagged preventive maintenance that lacks room_id or lacks
\* topic_data is answered 400 with the missing field among the error keys,
\* and writes nothing: no such request ever gets past validation into the
\* atomic block, and the step that answers it changes neither table.
C7_PreventiveRequiresRoomAndTopic ==
    [][/\ \A p \in Procs :
            pc'[p] # "idle" => req'[p].data \notin PreventiveIncomplete
       /\ last'.data \in PreventiveIncomplete
            => /\ last'.code = 400
               /\ last'.data.room_id = 0 => "room_id" \in last'.keys
               /\ last'.data.topic = None => "topic_data" \in last'.keys
               /\ last' # last => (jobs' = jobs /\ topics' = topics)]_vars

C7_Witness ==
    /\ last.data.op = "create" /\ last.data.pm
    /\ last.data.room_id # 0 /\ last.data.topic = None
    /\ last.code = 400 /\ last.keys = {"topic_data"}

\* C8: a create not flagged preventive maintenance that omits room_id and
\* topic_data succeeds and stores a job with no room and no topic.
C8_PlainCreateWithoutRoomAndTopic ==
    (/\ last.data.op = "create" /\ ~last.data.pm
     /\ last.data.room_id = 0 /\ last.data.topic = None /\ last.data.property_id = None)
       => (last.code = 201 /\ \E k \in 1 .. Len(jobs) :
                                 jobs[k].rooms = {} /\ jobs[k].topics = {})

InvalidProperty == "Invalid property ID"

\* the payload names a room or a property that matches no row
MissingReference(i) ==
    /\ i.room_id # 0 /\ i.topic \in Titles
    /\ i.room_id = MissingRoom \/ i.property_id = MissingProperty

\* C9: a create naming a property or a room that does not exist fails with
\* a not-found error and stores no job.
C9_MissingReferenceNotFound ==
    [][/\ (pc' = pc /\ last'.data.op = "create" /\ MissingReference(last'.data))
             => (last'.code = 400 /\ last'.msg \in {InvalidRoom, InvalidProperty}
                   /\ jobs' = jobs)
       /\ \A p \in Procs :
            (pc[p] = "job_create" /\ pc'[p] = "idle" /\ MissingReference(req[p].data))
               => (last'.code = 400 /\ last'.msg \in {InvalidRoom, InvalidProperty}
                     /\ jobs' = jobs)]_vars

\* C10: the error of a create that fails on a missing property is keyed
\* property_id, and the error of one that fails on a missing room is keyed
\* room_id.
C10_NotFoundKeyedByField ==
    (last.data.op = "create" /\ last.code = 400 /\ MissingReference(last.data))
       => last.keys = IF last.data.room_id = MissingRoom THEN {"room_id"}
                      ELSE {"property_id"}

\* C11: a successful create whose room_id names an existing room stores a
\* job linked to that room, and when the room has a property and the
\* request gave no property_id the stored job's property is the room's.
C11_CreateLinksRoomAndAdoptsProperty ==
    [][Len(jobs') = Len(jobs) + 1
         => LET j == jobs'[Len(jobs')]
                i == last'.data
            IN  /\ last'.code = 201
                /\ i.room_id \in j.rooms
                /\ (i.property_id = None /\ RoomProperties(i.room_id) # {})
                     => j.property = RoomProperties(i.room_id)]_vars

\* ================================================== unresolvable references
\* C12: an Update whose room_id or property_id matches no row is answered
\* without error (404 only when the job itself does not exist); the step
\* leaves the job's rooms, respectively its property, as they were, and the
\* status it supplied is stored.
C12_UpdateIgnoresMissingReference ==
    [][(last'.data.op = "update"
          /\ (last'.data.room_id = MissingRoom \/ last'.data.property_id = MissingProperty))
         => /\ last'.code \in {200, 404}
            /\ last'.code = 404 => Lookup(last'.data.job_id) = 0 /\ jobs' = jobs
            /\ \A k \in 1 .. Len(jobs) :
                 jobs[k].job_id = last'.data.job_id
                   => /\ last'.code = 200
                      /\ last'.data.room_id = MissingRoom => jobs'[k].rooms = jobs[k].rooms
                      /\ last'.data.property_id = MissingProperty
                           => jobs'[k].property = jobs[k].property
                      /\ last'.data.status # None => jobs'[k].status = last'.data.status]_vars

\* a job that has a property and a room is updated with a missing room, a
\* missing property and a new status: the status is stored, the rest kept
C12_Witness ==
    /\ last.data.op = "update" /\ last.code = 200
    /\ last.data.room_id = MissingRoom /\ last.data.property_id = MissingProperty
    /\ last.data.status = "in_progress"
    /\ \E k \in 1 .. Len(jobs) :
         /\ jobs[k].job_id = last.data.job_id
         /\ jobs[k].status = "in_progress"
         /\ jobs[k].property = {"P1"}
         /\ jobs[k].rooms = {1, 2}

\* ============================================================= attribution
\* C13: a job is created with user and updated_by equal to the creating
\* user; every accepted UpdateStatus and Update sets updated_by to the user
\* who sent it; updated_by changes in no other step; user never changes.
C13_UpdatedByIsLastActor ==
    [][/\ \A k \in 1 .. Len(jobs) :
            /\ jobs'[k].user = jobs[k].user
            /\ jobs'[k].updated_by # jobs[k].updated_by
                 => (last'.code = 200 /\ last'.data.job_id = jobs[k].job_id)
       /\ \A p \in Procs :
            (pc[p] = "job_create" /\ pc'[p] = "idle" /\ last'.code = 201)
               => /\ Len(jobs') = Len(jobs) + 1
                  /\ jobs'[Len(jobs')].user = req[p].user
                  /\ jobs'[Len(jobs')].updated_by = req[p].user
       /\ \A u \in Users :
            /\ \A i \in StatusInputsA :
                 (UpdateStatus(u, i) /\ last'.code = 200)
                    => jobs'[Lookup(i.job_id)].updated_by = u
            /\ \A i \in UpdateInputsA :
                 (Update(u, i) /\ last'.code = 200)
                    => jobs'[Lookup(i.job_id)].updated_by = u]_vars

\* a job created by u1 whose status u2 changed last
C13_Witness ==
    /\ last.data.op = "update_status" /\ last.code = 200
    /\ \E k \in 1 .. Len(jobs) :
         /\ jobs[k].job_id = last.data.job_id
         /\ jobs[k].user = "u1" /\ jobs[k].updated_by = "u2"

\* ================================================================= uploads
\* C14: a create answered 201 for a request with n uploaded files adds
\* exactly n JobImage rows, each pointing at the job just stored and tagged
\* with the requesting user; no other step adds, removes or changes a row.
C14_OneJobImagePerUpload ==
    [][/\ \A p \in Procs :
            (pc[p] = "job_create" /\ pc'[p] = "idle" /\ last'.code = 201)
               => /\ Len(jobs') = Len(jobs) + 1
                  /\ jobimages \subseteq jobimages'
                  /\ Cardinality(jobimages' \ jobimages) = Len(req[p].data.files)
                  /\ \A r \in jobimages' \ jobimages :
                       /\ r.job = Len(jobs')
                       /\ r.uploaded_by = req[p].user
                       /\ r.id \notin {x.id : x \in jobimages}
       /\ Len(jobs') = Len(jobs) => jobimages' = jobimages]_vars

\* a job stored with two images
C14_Witness ==
    /\ last.data.op = "create" /\ last.code = 201 /\ Len(last.data.files) = 2
    /\ \E k \in 1 .. Len(jobs) : Cardinality({r \in jobimages : r.job = k}) = 2

C18_OneProfilePerAccount ==
    \A a \in accounts : Cardinality({r \in profiles : r.user = a.username}) = 1

\* two accounts, one registered and one made by a Google sign-in that was
\* later linked to its Google id
C18_Witness ==
    /\ Cardinality(accounts) = 2
    /\ \E r \in profiles : r.google_id # None
    /\ \E x \in sessions : \E r \in profiles : r.user = x.user /\ r.google_id = None

\* C19: a Google sign-in that reaches the profile update with a picture,
\* which the profile save cannot process, still creates a session and is
\* answered 200.  The sign-in reaches the update when its Google id or its
\* email identifies one stored account.
C19_PictureFailureKeepsSession ==
    [][\A g \in GoogleInputs :
          (/\ g.picture # None /\ g.email # None
           /\ \/ Cardinality({r \in profiles : r.google_id = g.sub}) = 1
              \/ /\ {r \in profiles : r.google_id = g.sub} = {}
                 /\ Cardinality({a \in accounts : a.email = g.email}) = 1
           /\ GoogleAuth(g))
             => /\ last'.code = 200
                /\ Cardinality(sessions') = Cardinality(sessions) + 1
                /\ \E r \in profiles' : r.google_id = g.sub /\ r.picture = g.picture]_vars

\* a sign-in with a picture was answered 200 and its profile holds the URL
C19_Witness ==
    /\ last.data.op = "google_auth" /\ last.code = 200 /\ last.data.picture = PictureUrl
    /\ \E r \in profiles : r.google_id = last.data.sub /\ r.picture = PictureUrl
    /\ sessions # {}

\* ================================================================= job ids
\* C15: every stored job has a generated (non-blank) job_id, and no step
\* (later save, Update, UpdateStatus) changes the job_id of a stored job.
C15_JobIdNeverReassigned ==
    [][/\ \A k \in 1 .. Len(jobs) : jobs'[k].job_id = jobs[k].job_id
       /\ \A k \in 1 .. Len(jobs') : jobs'[k].job_id # 0]_vars

\* a job whose status and completion stamp later requests changed
C15_Witness ==
    /\ last.data.op \in {"update", "update_status"} /\ last.code = 200
    /\ \E k \in 1 .. Len(jobs) :
         /\ jobs[k].job_id = last.data.job_id
         /\ jobs[k].status # "pending" /\ jobs[k].completed_at # {}

\* C16: no two stored jobs share a job_id; a create whose generated id is
\* that of a stored job stores no second job.
C16_JobIdsDistinct ==
    \A k1, k2 \in 1 .. Len(jobs) : jobs[k1].job_id = jobs[k2].job_id => k1 = k2

\* a job is stored and the last create, which passed validation and named
\* no property, was refused: its generated id was the stored job's
C16_Witness ==
    /\ Len(jobs) >= 1
    /\ last.data.op = "create" /\ last.code = 400 /\ last.keys = {"detail"}
    /\ last.data.property_id = None

\* ================================================== image normalization
\* C20: for every image whose decoded mode has an alpha band, the stored
\* result is in the opaque mode RGB and its pixel is the upload's pixel
\* composited onto white (a fully transparent pixel is stored white).
C20_AlphaFlattenedOnWhite ==
    (stored # NoImage /\ HasAlphaBand(img.mode))
       => /\ stored.mode = "RGB"
          /\ stored.alpha = 255
          /\ stored.shade = (img.shade * img.alpha + White * (255 - img.alpha)) \div 255

\* ===================================================== status invariants
\* C27: every stored job whose status is 'completed' carries a completed_at
\* timestamp, whichever operation stored that status (create, UpdateStatus,
\* Update).
C27_CompletedHasTimestamp ==
    \A k \in 1 .. Len(jobs) : jobs[k].status = "completed" => jobs[k].completed_at # {}

\* a job created with status 'completed', stamped by Job.save alone
C27_Witness ==
    /\ last.code = 201
    /\ last.data.op = "create"
    /\ last.data.status = "completed"
    /\ \E k \in 1 .. Len(jobs) : jobs[k].status = "completed" /\ jobs[k].completed_at # {}

\* C28: the status of every stored job is one of STATUS_CHOICES, after
\* every sequence of requests.
C28_StatusAlwaysAllowed ==
    \A k \in 1 .. Len(jobs) : jobs[k].status \in STATUS_CHOICES

\* ======================================================= Google sign-up
\* C30: a Google sign-in that stores a new account (unknown Google id,
\* unknown email) is answered 200 with a new session, and the new account
\* has exactly one profile, which carries the Google id; no sign-in that
\* is answered with an error leaves a new account stored.
C30_GoogleSignUpCreatesOneProfile ==
    [][(last'.data.op = "google_auth" /\ Cardinality(accounts') > Cardinality(accounts))
          => /\ last'.code = 200
             /\ Cardinality(sessions') = Cardinality(sessions) + 1
             /\ \A a \in accounts' \ accounts :
                   /\ Cardinality({r \in profiles' : r.user = a.username}) = 1
                   /\ \A r \in profiles' : r.user = a.username => r.google_id = last'.data.sub]_vars

C21_DownscaledToBound ==
    stored # NoImage
       => LET b == IF media.kind = "job" THEN MAX_SIZE ELSE ProfileMaxSize
              long == IF img.width >= img.height THEN img.width ELSE img.height
          IN  (img.width > b \/ img.height > b)
                 => /\ stored.width <= b /\ stored.height <= b
                    /\ stored.width >= 1 /\ stored.height >= 1
                    /\ (IF img.width >= img.height THEN stored.width ELSE stored.height) = b
                    /\ Abs(stored.width * long - b * img.width) < long
                    /\ Abs(stored.height * long - b * img.height) < long

\* a 1201 x 450 job image stored as 800 x 300
C21_Witness ==
    /\ stored # NoImage /\ media.kind = "job"
    /\ img.width = 1201 /\ img.height = 450
    /\ stored.width = 800 /\ stored.height = 300

\* ========================================================== step order
StepOrder == <<"decode", "flatten", "convert", "downscale", "encode", "write">>
StepRank(x) == CHOOSE k \in 1 .. Len(StepOrder) : StepOrder[k] = x

\* C23: every stored image, of a job and of a profile, was produced by
\* steps in the order decode, flatten, convert, downscale, encode, write:
\* the steps taken appear in increasing rank, so a flatten or convert never
\* follows a downscale.
C23_StepsInOrder ==
    stored # NoImage
       => /\ stored.steps[1] = "decode"
          /\ stored.steps[Len(stored.steps)] = "write"
          /\ \A k \in 1 .. Len(stored.steps) - 1 :
                StepRank(stored.steps[k]) < StepRank(stored.steps[k + 1])

\* ================================================ normalization on save
\* C24: the save that creates a JobImage writes the normalized file, and
\* every later save of the same JobImage leaves the stored file as it is
\* and writes no file.
C24_JobImageNormalizedOnceAtCreation ==
    [][/\ (media.kind = None /\ media'.kind = "job")
            => (media'.writes = 1 /\ stored' = WriteFile(ProcessJobImage(img)))
       /\ (media.kind = "job" /\ media'.saves > media.saves)
            => (stored' = stored /\ media'.writes = media.writes)]_vars

\* a JobImage saved twice after its creation, with the one file written
\* at creation
C24_Witness ==
    /\ media.kind = "job" /\ media.row
    /\ media.saves = 3 /\ media.writes = 1
    /\ stored # NoImage /\ stored.format = "JPEG"

\* C25: after the first save of a UserProfile that carries a profile image,
\* every later save of the profile (direct, or through the save of its
\* user) leaves the stored file as it is and writes no new file.
C25_ProfileImageNormalizedOnce ==
    [][(media.kind = "profile" /\ media'.saves > media.saves)
          => (stored' = stored /\ media'.writes = media.writes)]_vars

\* ================================================================ delete
\* C26: JobImage.delete removes the file from storage and then the row,
\* in this order; when the file is missing already it removes the row all
\* the same, without an error.
C26_DeleteRemovesFileThenRow ==
    [][(media.kind = "job" /\ media.row /\ media'.events # media.events)
          => /\ ~media'.row /\ ~media'.file
             /\ stored' = NoImage
             /\ media'.events =
                   media.events \o (IF media.file THEN <<"remove_file", "delete_row">>
                                    ELSE <<"delete_row">>)]_vars

\* a JobImage whose file had been lost was deleted: only the row was left
\* to remove
C26_Witness ==
    /\ media.kind = "job" /\ ~media.row /\ ~media.file
    /\ media.events = <<"delete_row">>

\* ============================================================= sessions
\* C29: a session-issuance POST by an authenticated (stored) user is
\* answered 200 and a session of that user is stored afterwards, whatever
\* registrations, logins, sign-ins and logouts came before and however
\* many sessions the user has.
C29_SessionPostAlwaysSucceeds ==
    [][\A i \in SessionInputs :
          SessionPost(i)
             => /\ last'.code = 200
                /\ \E x \in sessions' : x.user = i.username]_vars

====
